---- MODULE Spec2Model ----
(***************************************************************************)
(* Historization engine of historize.py: a TinyDB in-memory store of EPCI   *)
(* versions fed by one CSV file per year.  The store is the sequence of    *)
(* its documents in doc_id order; a document is a record whose optional    *)
(* keys (predecesseurs, successeurs, dateFin, raisonFin) are present only  *)
(* once the code has written them, as in the Python dicts.                 *)
(***************************************************************************)
EXTENDS Integers, Sequences, FiniteSets, TLC

VARIABLES
    pc,        \* position of build_history: "loop", "load", "done", "failed"
    year,      \* loop variable of build_history
    db,        \* Store.db: the documents, in doc_id order
    sirens,    \* load_year: the set of sirens seen this year
    result,    \* load_year: the LoadResult being filled
    prevKey,   \* itertools.groupby: key of the group yielded last this year
    infile,    \* the <<siren, insee>> pairs of the rows read from this year's file
    epci,      \* upsert: the candidate extracted by the last call
    op,        \* load_year: the value returned by the last upsert
    results,   \* build_history: the LoadResult of every year processed
    output,    \* the content of the output file
    nbcom,     \* extract_epci: int(row['nb_com']) of the last call
    logged,    \* extract_epci: the arguments of its call of error(), <<>> if none
    summary,   \* build_history: the figures of the final summary
    lacking    \* a row read so far in the run lacked a field of the header

vars == <<pc, year, db, sirens, result, prevKey, infile, epci, op, results, output,
          nbcom, logged, summary, lacking>>

-----------------------------------------------------------------------------
(* Bounds of the model *)

\* years processed: FIRST_YEAR .. FIRST_YEAR + NumYears - 1
NumYears == 3
\* groups yielded by groupby over all the files of a run
MaxGroups == 4
\* rows of one group
MaxGroupRows == 2

(* Program constants *)

FIRST_YEAR == 1999

\* mutant: the loop stops one year early (range without the + 1)
LastYearExcluded == FIRST_YEAR + NumYears - 2

LAST_YEAR == FIRST_YEAR + NumYears - 1

INSERTED == 0
UPDATED == 1
None == 0 - 1

CHANGED == "Changement de membres"

ZFILL == 5

(* Input alphabet: the values the rows of a year's file may carry.  E1 is  *)
(* the key whose rows vary: it comes as "CC A" declaring one member or as  *)
(* "CA B" declaring two, with any insee.  E2 always comes with the same    *)
(* row, complete or cut short.                                             *)

Sirens == {"E1", "E2"}
Insee == {<<1>>, <<0, 1>>, <<2>>}
AttrA == [nom |-> "CC A", nature |-> "CC", fiscalite |-> "4TX", ptot |-> 100]
AttrB == [nom |-> "CA B", nature |-> "CA", fiscalite |-> "FPU", ptot |-> 200]
\* a row shorter than the header: csv.DictReader gives its trailing column
\* (here ptot) the value None
AttrShort == [nom |-> "CC A", nature |-> "CC", fiscalite |-> "4TX", ptot |-> None]

\* a row of csv.DictReader
Row(siren, a, n, i) ==
    [siren |-> siren, nom |-> a.nom, nature |-> a.nature, fiscalite |-> a.fiscalite,
     ptot |-> a.ptot, nb_com |-> n, insee |-> i]

\* what the rows of one group of a siren may carry in the file of year y:
\* the scalar columns are those of the EPCI, the insee column varies from
\* row to row; the rows cut short are those of E2 in the last file
HeadsOf(siren, y) ==
    IF siren = "E1"
    THEN {[attrs |-> AttrA, nb_com |-> 1, insee |-> Insee],
          [attrs |-> AttrB, nb_com |-> 2, insee |-> Insee]}
    ELSE [attrs : IF y = LAST_YEAR THEN {AttrA, AttrShort} ELSE {AttrA},
          nb_com : {1}, insee : {{<<2>>}}]

\* the groups itertools.groupby may yield for a siren: 1..MaxGroupRows rows
GroupsOf(siren, y) ==
    UNION {{[i \in 1..n |-> Row(siren, h.attrs, h.nb_com, ins[i])] :
                ins \in [1..n -> h.insee]} :
           h \in HeadsOf(siren, y), n \in 1..MaxGroupRows}

-----------------------------------------------------------------------------
(* Pure helpers *)

\* str.zfill(width): left-pad with zeros, never truncate
zfill(s, width) ==
    IF Len(s) >= width THEN s
    ELSE [i \in 1..width |-> IF i <= width - Len(s) THEN 0 ELSE s[i - (width - Len(s))]]

\* datetime.date(y, m, d)
date(y, m, d) == <<y, m, d>>

\* '{siren}@{year}-01-01'.format(...)
FormatId(siren, y) == <<siren, "@", y, 1, 1>>

\* Query.exists() on a document key
exists(doc, key) == key \in DOMAIN doc

\* dict.update: the fields written win, the other keys are kept
update(fields, doc) == fields @@ doc

\* a ^ b on sets
SymDiff(a, b) == (a \ b) \cup (b \ a)

\* sum(r.total for r in results)
RECURSIVE SumTotal(_)
SumTotal(rs) == IF rs = <<>> THEN 0 ELSE rs[1].total + SumTotal(Tail(rs))

\* sum(r.<field> for r in results)
RECURSIVE Sum(_, _)
Sum(rs, field) == IF rs = <<>> THEN 0 ELSE rs[1][field] + Sum(Tail(rs), field)

\* the keyword arguments of the final success(SUMMARY, ...)
Summary(rs) ==
    [total |-> Sum(rs, "total"), insertions |-> Sum(rs, "new"),
     updates |-> Sum(rs, "updated"), ended |-> Sum(rs, "ended"), years |-> Len(rs)]

\* LoadResult()
NewResult == [total |-> 0, new |-> 0, updated |-> 0, ended |-> 0]

-----------------------------------------------------------------------------
(* Store *)

\* mutant: the query forgets the dateFin filter
IsCurrentAnyVersion(doc, siren) == doc.siren = siren

\* the query of db.get in upsert: (EPCI.siren == siren) & ~EPCI.dateFin.exists()
IsCurrent(doc, siren) == doc.siren = siren /\ ~exists(doc, "dateFin")

\* mutant: db.get looks the siren up among all versions, closed or not
GetCurrentAnyVersion(store, siren) ==
    LET hits == {i \in 1..Len(store) : store[i].siren = siren}
    IN  IF hits = {} THEN 0 ELSE CHOOSE i \in hits : \A j \in hits : i <= j

\* db.get: doc_id of the first matching document, 0 for None
GetCurrent(store, siren) ==
    LET hits == {i \in 1..Len(store) : IsCurrent(store[i], siren)}
    IN  IF hits = {} THEN 0 ELSE CHOOSE i \in hits : \A j \in hits : i <= j

extract_epci(y, rows) ==
    LET row == rows[1]
    IN  [id        |-> FormatId(row.siren, y),
         dateDebut |-> date(y, 1, 1),
         siren     |-> row.siren,
         nom       |-> row.nom,
         nature    |-> row.nature,
         fiscalite |-> row.fiscalite,
         population |-> row.ptot,
         membres   |-> {zfill(rows[i].insee, ZFILL) : i \in 1..Len(rows)}]

\* mutant: the declared count is compared with the number of rows
MismatchRowCount(rows, candidate) == rows[1].nb_com # Len(rows)

\* the consistency test of extract_epci: int(row['nb_com']) != len(epci['membres'])
Mismatch(rows, candidate) == rows[1].nb_com # Cardinality(candidate.membres)

\* the arguments of error(MISMATCH_ERROR, ...)
ErrorArgs(rows, candidate) ==
    <<candidate.siren, rows[1].nb_com, Cardinality(candidate.membres)>>

\* what extract_epci logs for a group: the arguments of error(), or nothing
Logged(y, rows) ==
    IF Mismatch(rows, extract_epci(y, rows))
    THEN ErrorArgs(rows, extract_epci(y, rows)) ELSE <<>>

\* a row lacks a field of the header (DictReader filled it with None)
Lacks(row) == row.ptot = None

\* mutant: the version is closed at the end of the year being loaded
CloseDateSameYear(y) == date(y, 12, 31)

\* the date written on a version closed in year y
CloseDate(y) == date(y - 1, 12, 31)

\* mutant: set difference in place of symmetric difference
DifferOneWay(current, candidate) == current.membres \ candidate.membres # {}

\* mutant: a renamed EPCI counts as changed
DifferOrRenamed(current, candidate) ==
    SymDiff(current.membres, candidate.membres) # {} \/ current.nom # candidate.nom

\* the membership test of upsert: bool(current['membres'] ^ epci['membres'])
Differ(current, candidate) == SymDiff(current.membres, candidate.membres) # {}

\* mutant: the superseded version is linked but not closed
ClosingFieldsNoDate(y, candidate) ==
    [successeurs |-> <<candidate.id>>, raisonFin |-> CHANGED]

\* the fields upsert writes on the superseded version
ClosingFields(y, candidate) ==
    [successeurs |-> <<candidate.id>>, dateFin |-> CloseDate(y), raisonFin |-> CHANGED]

\* the candidate as upsert inserts it when it supersedes current
Linked(candidate, current) == update([predecesseurs |-> <<current.id>>], candidate)

\* upsert: the store, the candidate and the returned value after the call
upsert(store, y, siren, rows) ==
    LET cur  == GetCurrent(store, siren)
        cand == extract_epci(y, rows)
    IN  IF cur = 0
        THEN [db |-> Append(store, cand), epci |-> cand, op |-> INSERTED]
        ELSE IF Differ(store[cur], cand)
        THEN LET new == Linked(cand, store[cur])
             IN  [db   |-> [Append(store, new) EXCEPT
                               ![cur] = update(ClosingFields(y, new), @)],
                  epci |-> new, op |-> UPDATED]
        ELSE [db |-> store, epci |-> cand, op |-> None]

\* mutant: the closure forgets the negation and closes the sirens seen
IsMissingInverted(doc, seen) == doc.siren \in seen /\ ~exists(doc, "dateFin")

\* mutant: total counts only the groups that changed the store
CountChangesOnly(r, o) ==
    [r EXCEPT !.new = IF o = INSERTED THEN @ + 1 ELSE @,
              !.updated = IF o = INSERTED THEN @ ELSE IF o = UPDATED THEN @ + 1 ELSE @,
              !.total = IF o \in {INSERTED, UPDATED} THEN @ + 1 ELSE @]

\* mutant: the closure forgets the dateFin filter
IsMissingAnyState(doc, seen) == ~(doc.siren \in seen)

\* the query of the end-of-year update:
\* ~(EPCI.siren.one_of(sirens) | EPCI.dateFin.exists())
IsMissing(doc, seen) == ~(doc.siren \in seen \/ exists(doc, "dateFin"))

\* the fields the end-of-year update writes
MissingFields(y) == [dateFin |-> CloseDate(y)]

\* db.update(fields, cond): the doc_ids updated
MissingIds(store, seen) == {i \in 1..Len(store) : IsMissing(store[i], seen)}

CloseMissing(store, y, seen) ==
    [i \in 1..Len(store) |->
        IF i \in MissingIds(store, seen) THEN update(MissingFields(y), store[i])
        ELSE store[i]]

\* the counters of load_year after one group
Count(r, o) ==
    [r EXCEPT !.new = IF o = INSERTED THEN @ + 1 ELSE @,
              !.updated = IF o = INSERTED THEN @ ELSE IF o = UPDATED THEN @ + 1 ELSE @,
              !.total = @ + 1]

-----------------------------------------------------------------------------
(* Actions *)

\* the value of epci while no candidate has been extracted
NoEpci == [id |-> <<>>]

\* the output file left by an earlier run
PreviousExport == <<[id |-> <<"previous export">>]>>

\* the summary before it is computed
NoSummary == [total |-> 0, insertions |-> 0, updates |-> 0, ended |-> 0, years |-> 0]

Init ==
    /\ pc = "loop"
    /\ year = FIRST_YEAR
    /\ db = <<>>
    /\ sirens = {}
    /\ result = NewResult
    /\ prevKey = ""
    /\ infile = {}
    /\ epci = NoEpci
    /\ op = None
    /\ results = <<>>
    /\ output = PreviousExport
    /\ nbcom = 0
    /\ logged = <<>>
    /\ summary = NoSummary
    /\ lacking = FALSE

\* build_history enters load_year for the next year and opens its file
BeginYear ==
    /\ pc = "loop"
    /\ year <= LAST_YEAR
    /\ pc' = "load"
    /\ sirens' = {}
    /\ result' = NewResult
    /\ prevKey' = ""
    /\ infile' = {}
    /\ UNCHANGED <<year, db, epci, op, results, output, nbcom, logged, summary, lacking>>

\* one iteration of the loop over groupby: the next maximal run of rows
\* sharing a siren is read and upserted
NextGroup ==
    /\ pc = "load"
    /\ SumTotal(results) + result.total < MaxGroups
    /\ \E siren \in Sirens \ {prevKey} : \E rows \in GroupsOf(siren, year) :
          \E u \in {upsert(db, year, siren, rows)} :
              /\ db' = u.db
              /\ epci' = u.epci
              /\ op' = u.op
              /\ result' = Count(result, u.op)
              /\ sirens' = sirens \cup {siren}
              /\ prevKey' = siren
              /\ infile' = infile \cup {<<siren, rows[i].insee>> : i \in 1..Len(rows)}
              /\ nbcom' = rows[1].nb_com
              /\ logged' = Logged(year, rows)
              /\ lacking' = (lacking \/ \E i \in 1..Len(rows) : Lacks(rows[i]))
    /\ UNCHANGED <<pc, year, results, output, summary>>

\* the file is exhausted: missing sirens are closed, load_year returns (its
\* locals are gone) and build_history records the result
EndYear ==
    /\ pc = "load"
    /\ db' = CloseMissing(db, year, sirens)
    /\ results' = Append(results,
                         [result EXCEPT !.ended = Cardinality(MissingIds(db, sirens))])
    /\ year' = year + 1
    /\ pc' = "loop"
    /\ sirens' = {}
    /\ result' = NewResult
    /\ prevKey' = ""
    /\ infile' = {}
    /\ epci' = NoEpci
    /\ op' = None
    /\ nbcom' = 0
    /\ logged' = <<>>
    /\ UNCHANGED <<output, summary, lacking>>

\* an exception leaves build_history: no statement runs after it, so the
\* store and the results stay as the last step left them and the output
\* file is as it was
Raise(lacked) ==
    /\ pc' = "failed"
    /\ sirens' = {}
    /\ result' = NewResult
    /\ prevKey' = ""
    /\ infile' = {}
    /\ epci' = NoEpci
    /\ op' = None
    /\ nbcom' = 0
    /\ logged' = <<>>
    /\ lacking' = lacked
    /\ UNCHANGED <<year, db, results, output, summary>>

\* open(filename) finds no file for the year: FileNotFoundError
FileMissing ==
    /\ pc = "loop"
    /\ year <= LAST_YEAR
    /\ Raise(lacking)

\* the next row read makes the loop raise: the header has no column for a
\* field the code reads (KeyError), or the row is cut before its insee
\* (None has no zfill: AttributeError) or, heading a group, before its
\* nb_com (int(None): TypeError); extract_epci raises before any write
RowError ==
    /\ pc = "load"
    /\ Raise(TRUE)

\* after the last year build_history dumps the store and prints the summary
Dump ==
    /\ pc = "loop"
    /\ year > LAST_YEAR
    /\ output' = db
    /\ summary' = Summary(results)
    /\ pc' = "done"
    /\ UNCHANGED <<year, db, sirens, result, prevKey, infile, epci, op, results,
                   nbcom, logged, lacking>>

Next == BeginYear \/ NextGroup \/ EndYear \/ FileMissing \/ RowError \/ Dump

Spec == Init /\ [][Next]_vars

-----------------------------------------------------------------------------
(* Vocabulary of the properties *)

\* a version is open while it has no dateFin
Open(doc) == "dateFin" \notin DOMAIN doc

\* a version closed by the end-of-year closure: the only closure that
\* writes no raisonFin
ClosedMissing(doc) == "dateFin" \in DOMAIN doc /\ "raisonFin" \notin DOMAIN doc

\* an optional list of a document, empty when the key is absent
Links(doc, key) == IF key \in DOMAIN doc THEN doc[key] ELSE <<>>

\* the close reason of a document, "" when none was written
Reason(doc) == IF "raisonFin" \in DOMAIN doc THEN doc.raisonFin ELSE ""

\* doc_ids of the open versions of a siren
OpenOf(store, siren) == {i \in 1..Len(store) : store[i].siren = siren /\ Open(store[i])}

\* load_year has returned at least once and is not running
Completed == pc \in {"loop", "done"} /\ results # <<>>

\* the step is one call of upsert; the step is the end-of-year closure
UpsertStep == pc = "load" /\ pc' = "load"
ClosureStep == pc = "load" /\ pc' = "loop"

\* the result of the year load_year has just returned
LastResult == results[Len(results)]

-----------------------------------------------------------------------------
(* Properties *)

\* C1: after load_year has completed for a year, every siren has at most
\* one version without dateFin in the store.
C1_OneOpenPerSiren ==
    Completed => \A k \in Sirens : Cardinality(OpenOf(db, k)) <= 1

\* C1 witness: a completed year after which a siren upserted twice in one
\* year (two versions with the same dateDebut) has exactly one open version.
C1_Witness ==
    /\ Completed
    /\ \E i, j \in 1..Len(db) :
          /\ i < j /\ db[i].siren = db[j].siren /\ db[i].dateDebut = db[j].dateDebut
          /\ Cardinality(OpenOf(db, db[i].siren)) = 1

\* C2: upsert returns INSERTED exactly when the siren had no open version
\* before the call, and then the store is the old store plus the candidate,
\* open and without predecessors; it returns UPDATED exactly when an open
\* version existed whose membres differ from the candidate's; otherwise it
\* returns neither.
C2_UpsertResult ==
    [][UpsertStep =>
        LET open == OpenOf(db, prevKey')
        IN  /\ op' \in {INSERTED, UPDATED, None}
            /\ (op' = INSERTED) <=> (open = {})
            /\ (op' = INSERTED) =>
                  /\ db' = Append(db, epci')
                  /\ Open(epci')
                  /\ Links(epci', "predecesseurs") = <<>>
            /\ (op' = UPDATED) <=> (\E i \in open : db[i].membres # epci'.membres)]_vars

\* C2 witness: an upsert has just inserted a first version of a siren into
\* a store that already held versions.
C2_Witness ==
    /\ pc = "load" /\ op = INSERTED /\ Len(db) > 1
    /\ db[Len(db)] = epci
    /\ \A i \in 1..(Len(db) - 1) : db[i].siren # epci.siren

\* C3: when upsert in year Y finds an open version whose membres differ
\* from the candidate's, afterwards the candidate is the last document,
\* open, with predecesseurs = [old.id]; the old version has successeurs =
\* [candidate.id], dateFin = Y-1-12-31 and raisonFin = "Changement de
\* membres"; its other keys and every other document are unchanged.
C3_MembershipChange ==
    [][UpsertStep =>
        \A i \in OpenOf(db, prevKey') :
            db[i].membres # epci'.membres =>
                /\ db'[Len(db')] = epci'
                /\ Len(db') = Len(db) + 1
                /\ Open(epci')
                /\ Links(epci', "predecesseurs") = <<db[i].id>>
                /\ Links(db'[i], "successeurs") = <<epci'.id>>
                /\ ~Open(db'[i]) /\ db'[i].dateFin = <<year - 1, 12, 31>>
                /\ Reason(db'[i]) = "Changement de membres"
                /\ \A key \in DOMAIN db[i] : db'[i][key] = db[i][key]
                /\ \A j \in (1..Len(db)) \ {i} : db'[j] = db[j]]_vars

\* C3 witness: an upsert has just superseded a version of an earlier year.
C3_Witness ==
    /\ pc = "load" /\ op = UPDATED
    /\ \E i \in 1..Len(db) :
          /\ Links(db[i], "successeurs") = <<epci.id>>
          /\ db[i].dateDebut[1] < year
          /\ db[i].dateFin = <<year - 1, 12, 31>>

C5_Unchanged ==
    [][UpsertStep =>
        \A i \in OpenOf(db, prevKey') :
            db[i].membres = epci'.membres =>
                /\ db' = db
                /\ op' = None
                /\ result'.total = result.total + 1
                /\ result'.new = result.new
                /\ result'.updated = result.updated]_vars

\* C5 witness: an upsert has just been a no-op although the candidate's
\* name, category, fiscal regime and population all differ from the open
\* version's.
C5_Witness ==
    /\ pc = "load" /\ op = None /\ result.total > 0
    /\ \E i \in OpenOf(db, epci.siren) :
          /\ db[i].membres = epci.membres
          /\ db[i].nom # epci.nom /\ db[i].nature # epci.nature
          /\ db[i].fiscalite # epci.fiscalite /\ db[i].population # epci.population

\* C6: whatever the order of the rows, load_year has processed one group
\* per distinct siren read (total = number of distinct sirens) and the
\* candidate's membres are the zero-padded insee of all the rows read that
\* carry its siren.
C6_GroupPerSiren ==
    (pc = "load" /\ result.total > 0) =>
        /\ result.total = Cardinality({p[1] : p \in infile})
        /\ epci.membres = {zfill(p[2], 5) : p \in {q \in infile : q[1] = epci.siren}}

\* C7: no two documents of the store share an id.
C7_UniqueIds ==
    \A i, j \in 1..Len(db) : i # j => db[i].id # db[j].id

\* C8: for all versions A and B, A.successeurs = [B.id] exactly when
\* B.predecesseurs = [A.id].
C8_LinkSymmetry ==
    \A i, j \in 1..Len(db) :
        (Links(db[i], "successeurs") = <<db[j].id>>)
            <=> (Links(db[j], "predecesseurs") = <<db[i].id>>)

\* C9: a version closed by the end-of-year closure is never changed again,
\* and when its siren, having no open version, is upserted again, upsert
\* returns INSERTED and appends a version without predecessors.
C9_NeverReopened ==
    [][/\ \A i \in 1..Len(db) :
            ClosedMissing(db[i]) => (Len(db') >= i /\ db'[i] = db[i])
       /\ (/\ UpsertStep
           /\ OpenOf(db, prevKey') = {}
           /\ \E i \in 1..Len(db) : db[i].siren = prevKey' /\ ClosedMissing(db[i]))
          => /\ op' = INSERTED
             /\ Len(db') = Len(db) + 1
             /\ Open(db'[Len(db')])
             /\ Links(db'[Len(db')], "predecesseurs") = <<>>]_vars

\* C9 witness: a siren closed as missing has reappeared: the closed version
\* has no successor and a later version of the siren is open and has no
\* predecessor.
C9_Witness ==
    \E i, j \in 1..Len(db) :
        /\ i < j /\ db[i].siren = db[j].siren
        /\ ClosedMissing(db[i]) /\ Links(db[i], "successeurs") = <<>>
        /\ db[j].dateDebut[1] > db[i].dateFin[1] + 1
        /\ Open(db[j]) /\ Links(db[j], "predecesseurs") = <<>>

\* C10: a version closed by the end-of-year closure has no successors in
\* any later state, and a version with successors was closed with
\* raisonFin = "Changement de membres".
C10_SuccessorsOnlyOnChange ==
    [][/\ \A i \in 1..Len(db) :
            ClosedMissing(db[i]) =>
                (Len(db') >= i /\ ClosedMissing(db'[i]) /\ Links(db'[i], "successeurs") = <<>>)
       /\ \A i \in 1..Len(db') :
            Links(db'[i], "successeurs") # <<>> =>
                (~Open(db'[i]) /\ Reason(db'[i]) = "Changement de membres")]_vars

\* C10 witness: the store holds a version closed as missing, without
\* successors, next to a version closed by a membership change, with one.
C10_Witness ==
    \E i, j \in 1..Len(db) :
        /\ ClosedMissing(db[i]) /\ Links(db[i], "successeurs") = <<>>
        /\ Links(db[j], "successeurs") # <<>>
        /\ Reason(db[j]) = "Changement de membres"

\* C11: the store is append-only.  No step removes a document or changes
\* the id, siren, dateDebut, attributes, membres or predecesseurs of one;
\* a step may only add dateFin, raisonFin and successeurs to a document
\* that is open before the step, and a closed document never changes.
C11_AppendOnly ==
    [][/\ Len(db') >= Len(db)
       /\ \A i \in 1..Len(db) :
            Len(db') >= i =>
              /\ \A key \in DOMAIN db[i] \ {"dateFin", "raisonFin", "successeurs"} :
                    key \in DOMAIN db'[i] /\ db'[i][key] = db[i][key]
              /\ (DOMAIN db'[i] \ DOMAIN db[i]) \subseteq {"dateFin", "raisonFin", "successeurs"}
              /\ ~Open(db[i]) => db'[i] = db[i]
              /\ db'[i] # db[i] => (Open(db[i]) /\ ~Open(db'[i]))]_vars

\* C11 witness: a version closed by a membership change is still in the
\* store, as it was closed, after a later year closed another version.
C11_Witness ==
    \E i, j \in 1..Len(db) :
        /\ Reason(db[i]) = "Changement de membres"
        /\ Links(db[i], "successeurs") # <<>>
        /\ ClosedMissing(db[j])
        /\ db[j].dateFin[1] > db[i].dateFin[1]

\* the members of a set, in some order
RECURSIVE SeqOf(_)
SeqOf(set) ==
    IF set = {} THEN <<>>
    ELSE LET x == CHOOSE x \in set : TRUE IN <<x>> \o SeqOf(set \ {x})

\* rows from which extract_epci builds the candidate cand again, declaring
\* n members: one row per member, carrying the scalar columns of cand
RowsFor(cand, n) ==
    LET ms == SeqOf(cand.membres)
    IN  [i \in 1..Len(ms) |->
            [siren |-> cand.siren, nom |-> cand.nom, nature |-> cand.nature,
             fiscalite |-> cand.fiscalite, ptot |-> cand.population,
             nb_com |-> n, insee |-> ms[i]]]

\* C12: upsert is idempotent within a year: after any call of upsert, a
\* second call in the same year for the same siren with rows giving the
\* same candidate leaves the store as the first call left it.
C12_Idempotent ==
    [][UpsertStep =>
        \A again \in {upsert(db', year, prevKey', RowsFor(epci', nbcom'))} :
            /\ again.db = db'
            /\ again.epci.membres = epci'.membres
            /\ again.epci.id = epci'.id]_vars

\* C12 witness: the three kinds of first call have happened in one year: an
\* insertion, an update and a no-op.
C12_Witness ==
    /\ pc = "load" /\ op = None
    /\ result.total = 3 /\ result.new = 1 /\ result.updated = 1

\* C13: the years are processed one by one in ascending order; an upsert
\* of year Y happens when exactly the years before Y have been closed, the
\* closure of Y is the step that moves on to Y + 1, and the export happens
\* only once every year of the range has been closed.
C13_Order ==
    [][/\ year' \in {year, year + 1}
       /\ (year' = year + 1) <=> ClosureStep
       /\ UpsertStep =>
            /\ year \in FIRST_YEAR..(FIRST_YEAR + NumYears - 1)
            /\ Len(results) = year - FIRST_YEAR
            /\ results' = results
       /\ ClosureStep =>
            /\ Len(results) = year - FIRST_YEAR
            /\ Len(results') = Len(results) + 1
       /\ (pc' = "done" /\ pc # "done") =>
            /\ Len(results) = NumYears
            /\ year = FIRST_YEAR + NumYears
            /\ output' = db /\ db' = db]_vars

\* C13 witness: the run is over, every year of the range was closed, the
\* last one after an upsert of that year, and the store was exported.
C13_Witness ==
    /\ pc = "done" /\ Len(results) = NumYears
    /\ results[NumYears].total > 0 /\ results[1].total > 0
    /\ output = db

\* C17: when load_year(Y) returns, the sirens that have an open version
\* are exactly the sirens seen in the input of year Y.
C17_OpenIsSeen ==
    [][ClosureStep =>
        {db'[i].siren : i \in {j \in 1..Len(db') : Open(db'[j])}} = sirens]_vars

\* C17 witness: a year has completed after which one siren has an open
\* version and another siren, known to the store, has none.
C17_Witness ==
    /\ Completed
    /\ \E i, j \in 1..Len(db) :
          /\ Open(db[i])
          /\ db[j].siren # db[i].siren
          /\ OpenOf(db, db[j].siren) = {}

\* a date is strictly before another
Before(d1, d2) ==
    \/ d1[1] < d2[1]
    \/ d1[1] = d2[1] /\ d1[2] < d2[2]
    \/ d1[1] = d2[1] /\ d1[2] = d2[2] /\ d1[3] < d2[3]

\* the validity intervals of two documents share no day
Disjoint(d1, d2) ==
    \/ ~Open(d1) /\ Before(d1.dateFin, d2.dateDebut)
    \/ ~Open(d2) /\ Before(d2.dateFin, d1.dateDebut)

\* C18: every version starts on January 1 of the year that created it,
\* every closed version ends strictly after it starts, a successor starts
\* the day after its predecessor ends, and two versions of one siren never
\* overlap.
C18_Intervals ==
    /\ (pc = "load" /\ op \in {INSERTED, UPDATED}) =>
          db[Len(db)].dateDebut = <<year, 1, 1>>
    /\ \A i \in 1..Len(db) :
          /\ db[i].dateDebut[2] = 1 /\ db[i].dateDebut[3] = 1
          /\ ~Open(db[i]) => Before(db[i].dateDebut, db[i].dateFin)
    /\ \A i, j \in 1..Len(db) :
          Links(db[j], "predecesseurs") = <<db[i].id>> =>
              /\ ~Open(db[i])
              /\ db[i].dateFin = <<db[j].dateDebut[1] - 1, 12, 31>>
    /\ \A i, j \in 1..Len(db) :
          (i # j /\ db[i].siren = db[j].siren) => Disjoint(db[i], db[j])

\* C19: every version has at most one predecessor and one successor, a
\* predecessor has the siren of its successor and starts strictly earlier,
\* and no version is its own predecessor or successor.
C19_LinearLineage ==
    /\ \A i \in 1..Len(db) :
          /\ Len(Links(db[i], "predecesseurs")) <= 1
          /\ Len(Links(db[i], "successeurs")) <= 1
          /\ Links(db[i], "predecesseurs") # <<db[i].id>>
          /\ Links(db[i], "successeurs") # <<db[i].id>>
    /\ \A i, j \in 1..Len(db) :
          Links(db[j], "predecesseurs") = <<db[i].id>> =>
              /\ db[i].siren = db[j].siren
              /\ Before(db[i].dateDebut, db[j].dateDebut)

\* the sum of a counter over the results recorded so far
RECURSIVE Cumul(_, _)
Cumul(field, n) == IF n = 0 THEN 0 ELSE results[n][field] + Cumul(field, n - 1)

\* C20: after any number of processed years the store holds cumulative
\* inserted + updated versions, of which cumulative updated + ended are
\* closed and cumulative inserted - ended are open, the latter being the
\* last year's total; the first year ends nothing.
C20_CountsAccount ==
    Completed =>
        LET n      == Len(results)
            closed == Cardinality({i \in 1..Len(db) : ~Open(db[i])})
            open   == Cardinality({i \in 1..Len(db) : Open(db[i])})
        IN  /\ Len(db) = Cumul("new", n) + Cumul("updated", n)
            /\ closed = Cumul("updated", n) + Cumul("ended", n)
            /\ open = Cumul("new", n) - Cumul("ended", n)
            /\ open = results[n].total
            /\ results[1].ended = 0

\* C14: a run in which a year's file is missing or a row lacks a field ends
\* failed and never writes the output: once a row has lacked a field the
\* output stays the previous export, a failed run leaves the previous
\* export in place, and the output is written only when every year of the
\* range has been loaded.
C14_NoPartialOutput ==
    /\ lacking => output = PreviousExport
    /\ pc = "failed" => output = PreviousExport
    /\ output # PreviousExport => (pc = "done" /\ Len(results) = NumYears)

\* the member counts a group may declare
DeclaredCounts == 0..(MaxGroupRows + 1)

\* C15: a disagreement between the declared member count of a group and its
\* number of distinct members is not fatal.  On every upsert a warning is
\* logged exactly when the declared count differs from the cardinality of
\* the candidate's member set, and it names the siren, the declared count
\* and that cardinality; the candidate is upserted with the padded members
\* read for its siren; and the outcome of the upsert and the store after it
\* are those of the same group declaring any other count.
C15_MismatchWarning ==
    [][UpsertStep =>
        /\ (logged' # <<>>) <=> (nbcom' # Cardinality(epci'.membres))
        /\ logged' # <<>> =>
              logged' = <<prevKey', nbcom', Cardinality(epci'.membres)>>
        /\ epci'.membres # {}
        /\ epci'.membres \subseteq
              {zfill(p[2], ZFILL) : p \in {q \in infile' : q[1] = prevKey'}}
        /\ \A n \in DeclaredCounts :
              \A other \in {upsert(db, year, prevKey', RowsFor(epci', n))} :
                  /\ other.db = db'
                  /\ other.op = op'
                  /\ other.epci = epci']_vars

\* C15 witness: the first group of a year had two rows naming the same
\* member in two spellings and declared one member: no warning was logged
\* and the version was inserted with that one member.
C15_Witness ==
    /\ pc = "load" /\ result.total = 1 /\ op = INSERTED
    /\ Cardinality({p \in infile : p[1] = epci.siren}) = 2
    /\ Cardinality(epci.membres) = 1
    /\ nbcom = 1
    /\ logged = <<>>

\* 1 when the condition holds, else 0
Num(cond) == IF cond THEN 1 ELSE 0

\* C16: for each year load_year reports total = the number of groups
\* processed, new = the number of them whose siren had no open version when
\* upserted, updated = the number whose siren had an open version with
\* different members, and ended = the number of versions closed by the
\* end-of-year closure; the final summary reports the sums of the four
\* counts over all years and the number of years processed.
C16_Counts ==
    [][/\ UpsertStep =>
            /\ result'.total = result.total + 1
            /\ result'.new = result.new + Num(OpenOf(db, prevKey') = {})
            /\ result'.updated = result.updated
                  + Num(\E i \in OpenOf(db, prevKey') : db[i].membres # epci'.membres)
            /\ result'.ended = 0
       /\ ClosureStep =>
            /\ Len(results') = Len(results) + 1
            /\ \A n \in 1..Len(results) : results'[n] = results[n]
            /\ LastResult'.total = result.total
            /\ LastResult'.new = result.new
            /\ LastResult'.updated = result.updated
            /\ LastResult'.ended =
                  Cardinality({i \in 1..Len(db) : Open(db[i]) /\ ~Open(db'[i])})
       /\ pc' = "done" =>
            /\ summary'.total = Cumul("total", Len(results))
            /\ summary'.insertions = Cumul("new", Len(results))
            /\ summary'.updates = Cumul("updated", Len(results))
            /\ summary'.ended = Cumul("ended", Len(results))
            /\ summary'.years = NumYears
            /\ Len(results) = NumYears]_vars

\* C16 witness: a finished run whose summary counts groups that changed
\* nothing, insertions, an update and an ended version.
C16_Witness ==
    /\ pc = "done"
    /\ summary.years = NumYears
    /\ summary.updates > 0 /\ summary.ended > 0
    /\ summary.insertions > 1
    /\ summary.total > summary.insertions + summary.updates

====
